---- MODULE Spec2Model ----
(***************************************************************************)
(* The progressive multi-resolution training controller                    *)
(* train_sh_vox_grid_vol_mod_with_posed_images of                          *)
(* thre3d_atom/modules/trainers.py, as a state machine.                    *)
(*                                                                         *)
(* The controller is one thread of control.  Its positions are             *)
(*   "init"        before the function body runs (arguments bound)         *)
(*   "stage_begin" at the head of the stage loop, before the optimizer of  *)
(*                 the stage is built                                      *)
(*   "iter"        inside the stage, between two inner-loop iterations     *)
(*   "finalize"    after the stage loop, before the final torch.save       *)
(*   "done"        after return                                            *)
(*   "aborted"     after an exception left the function                    *)
(* Tensors are abstracted: a loss is a small natural number, a learning    *)
(* rate is an exact rational <<numerator, denominator>>, the parameters of *)
(* a voxel grid are the counts of the operations that wrote them.          *)
(***************************************************************************)
EXTENDS Integers, Sequences, FiniteSets, TLC

\* ------------------------------------------------------------------ bounds
MaxStages == 3
MaxIters == 5
MaxFreq == 5
MaxSideFreq == 3
MaxLoss == 1
MaxTrain == 3
MaxCache == 2
MaxRays == 5

\* Python's None, where the value is otherwise a string
None == "None"

\* An optional number or object: <<>> is None, <<v>> is the value v
Some(v) == <<v>>
Nothing == <<>>

\* --------------------------------------------------------------- rationals
RECURSIVE GCD(_, _)
GCD(x, y) == IF y = 0 THEN x ELSE GCD(y, x % y)

\* a rational in lowest terms, so that equal rationals are equal tuples
RatNorm(a) == <<a[1] \div GCD(a[1], a[2]), a[2] \div GCD(a[1], a[2])>>

RatMul(a, b) == RatNorm(<<a[1] * b[1], a[2] * b[2]>>)

RECURSIVE RatPow(_, _)
RatPow(a, n) == IF n = 0 THEN <<1, 1>> ELSE RatMul(a, RatPow(a, n - 1))

\* ceil(x / f) for positive integers
CeilDiv(x, f) == (x + f - 1) \div f

\* ---------------------------------------------------------------- strings
DigitChar == <<"0", "1", "2", "3", "4", "5", "6", "7", "8", "9">>

\* the decimal digits of a natural number, as an f-string formats it
RECURSIVE FormatInt(_)
FormatInt(n) ==
    IF n < 10 THEN <<DigitChar[n + 1]>>
    ELSE FormatInt(n \div 10) \o <<DigitChar[(n % 10) + 1]>>

VARIABLES
    args,                       \* the arguments of the call, never assigned
    pc,                         \* position of the controller
    stage,                      \* loop variable of the stage loop
    stage_iteration,            \* inner-loop iterations run in this stage
    global_step,                \* 0 until the first iteration assigns it
    vol_mod,                    \* [thre3d_repr |-> the voxel grid]
    stagewise_voxel_grid_sizes, \* list of grid sizes, <<>> until computed
    render_feedback_pose,       \* the local, reassigned when None
    train_dl,                   \* the loader of the training set
    test_dl,                    \* None or the loader of the held-out set
    dataset_size,               \* 0 until computed
    optimizer,                  \* the optimizer of the stage
    lr_scheduler,               \* the decay schedule of the stage
    n_objects,                  \* voxel grids, optimizers, schedules made
    last,                       \* what the latest iteration did
    counts,                     \* how often each effect happened
    tensorboard_writer,         \* names of the scalars the sink received
    model_dir,                  \* file name -> saved content
    render_dir,                 \* feedback artifacts written
    returned,                   \* Nothing or the returned representation
    error                       \* None or the exception that ended the call

vars == <<args, pc, stage, stage_iteration, global_step, vol_mod,
          stagewise_voxel_grid_sizes, render_feedback_pose, train_dl,
          test_dl, dataset_size, optimizer, lr_scheduler, n_objects, last,
          counts, tensorboard_writer, model_dir, render_dir, returned,
          error>>

\* ----------------------------------------------------- external collaborators
\* thre3d_atom.utils.misc.compute_thre3d_grid_sizes: S sizes, the last one the
\* final resolution, each earlier one the next divided by f along every axis.
RECURSIVE compute_thre3d_grid_sizes(_, _, _)
compute_thre3d_grid_sizes(final_required_resolution, n_stages, f) ==
    IF n_stages <= 1 THEN <<final_required_resolution>>
    ELSE compute_thre3d_grid_sizes(
             <<CeilDiv(final_required_resolution[1], f),
               CeilDiv(final_required_resolution[2], f),
               CeilDiv(final_required_resolution[3], f)>>,
             n_stages - 1, f)
         \o <<final_required_resolution>>

\* thre3d_reprs.voxels.scale_voxel_grid_with_required_output_size: a NEW voxel
\* grid of the required size whose values are resampled from the old ones.
scale_voxel_grid_with_required_output_size(grid, output_size, mode, new_id) ==
    [grid EXCEPT !.id = new_id,
                 !.grid_dims = output_size,
                 !.n_resampled = @ + 1,
                 !.modes = @ \cup {mode}]

\* random_initializer applied to the densities and to the features
random_initializer(grid) == [grid EXCEPT !.n_randomized = @ + 1]

\* optimizer.step(): one update of the parameters the optimizer is bound to
ParametersAfterStep(grid) == [grid EXCEPT !.n_steps = @ + 1]

\* torch.utils.data.DataLoader: len() is the number of batches, the last,
\* smaller batch dropped when drop_last
DataLoader(dataset, batch_size, drop_last) ==
    [len |-> IF drop_last THEN dataset.len \div batch_size
             ELSE CeilDiv(dataset.len, batch_size)]

\* modules.volumetric_model.visualize_sh_vox_grid_vol_mod_rendered_feedback
\* renders the model and writes images: the representation it leaves behind
visualize_sh_vox_grid_vol_mod_rendered_feedback(grid) == grid

\* modules.testers.test_sh_vox_grid_vol_mod_with_posed_images renders the
\* held-out views and logs metrics: the representation it leaves behind
test_sh_vox_grid_vol_mod_with_posed_images(grid) == grid

\* feedback_dataset[0][-1]: the pose of sample 0 of a dataset
PoseOfSample0(dataset) ==
    IF dataset = "test_dataset" THEN "pose_0_of_test_dataset"
    ELSE "pose_0_of_train_dataset"

\* ------------------------------------------------------------ the controller
\* the render procedure left unchecked
AssertionsHold_TypeOnly == vol_mod.thre3d_repr.type = "VoxelGrid"

\* lines 109-115: the two assertions the function opens with
AssertionsHold ==
    /\ vol_mod.thre3d_repr.type = "VoxelGrid"
    /\ vol_mod.render_procedure = "render_sh_voxel_grid"

\* the step counter restarting with every stage
GlobalStep_PerStage(s, it) == it

\* line 341
GlobalStep(s, it) == ((s - 1) * args.num_iterations_per_stage) + it

\* the rate of the previous stage, decays included, carried into the stage
CurrentStageLr_Carry(s) ==
    IF s = 1 THEN RatNorm(args.learning_rate)
    ELSE RatMul(optimizer.lr, args.stagewise_lr_decay_gamma)

\* line 238
CurrentStageLr(s) ==
    RatMul(args.learning_rate, RatPow(args.stagewise_lr_decay_gamma, s - 1))

\* lines 243-246: torch.optim.Adam over the current parameters
NewOptimizer(s, id) ==
    [id |-> id,
     params |-> vol_mod.thre3d_repr.id,
     lr |-> CurrentStageLr(s),
     n_steps |-> 0]

\* lines 249-251: ExponentialLR(optimizer, gamma)
NewLrScheduler(opt_id, id) ==
    [id |-> id, optimizer |-> opt_id,
     gamma |-> args.lr_decay_gamma_per_stage, n_decays |-> 0]

\* before the first stage no optimizer and no schedule exist
NoOptimizer == [id |-> 0, params |-> 0, lr |-> <<0, 1>>, n_steps |-> 0]

NoLrScheduler == [id |-> 0, optimizer |-> 0, gamma |-> <<1, 1>>, n_decays |-> 0]

\* the derived pose always taken from the training set
ResolvedFeedbackPose_TrainOnly ==
    IF args.render_feedback_pose = None
    THEN PoseOfSample0("train_dataset")
    ELSE args.render_feedback_pose

\* lines 139-144
ResolvedFeedbackPose ==
    IF args.render_feedback_pose = None
    THEN PoseOfSample0(IF args.test_dataset # None
                       THEN args.test_dataset ELSE "train_dataset")
    ELSE args.render_feedback_pose

\* lines 306 and 325: the loss that is back-propagated
TotalLoss(specular_loss, diffuse_loss) ==
    IF args.apply_diffuse_render_regularization
    THEN specular_loss + diffuse_loss
    ELSE specular_loss

\* the diffuse value kept for logging whether or not the pass is enabled
DiffuseLossValue_Always(diffuse_loss) == Some(diffuse_loss)

\* lines 315-316 and 328: None unless the diffuse pass was made
DiffuseLossValue(diffuse_loss) ==
    IF args.apply_diffuse_render_regularization
    THEN Some(diffuse_loss) ELSE Nothing

\* lines 344-348: tensorboard summaries
SummaryTrigger(g, it) ==
    \/ g % args.summary_freq = 0
    \/ it = 1
    \/ it = args.num_iterations_per_stage

\* the console line not forced on the last iteration of a stage
ConsoleTrigger_NoLast(g, it) ==
    \/ g % args.summary_freq = 0
    \/ it = 1

\* lines 363-367: console loss feedback
ConsoleTrigger(g, it) ==
    \/ g % args.summary_freq = 0
    \/ it = 1
    \/ it = args.num_iterations_per_stage

\* the 0-based index taken for the 1-based stage: the size of the stage itself
NextStageGridSize_Same(s) == stagewise_voxel_grid_sizes[s]

\* line 456: stagewise_voxel_grid_sizes[stage], a 0-based index
NextStageGridSize(s) == stagewise_voxel_grid_sizes[s + 1]

\* the decay counted on the global step
LrStepTrigger_Global(it) ==
    GlobalStep(stage, it) % args.lr_decay_steps_per_stage = 0

\* line 384
LrStepTrigger(it) == it % args.lr_decay_steps_per_stage = 0

\* a schedule step that rebuilds the optimizer state as well
LrSchedulerStep_ResetsState(opt) ==
    [opt EXCEPT !.lr = RatMul(@, lr_scheduler.gamma), !.n_steps = 0]

\* line 385: ExponentialLR.step() multiplies the rate of the optimizer by gamma
LrSchedulerStep(opt) == [opt EXCEPT !.lr = RatMul(@, lr_scheduler.gamma)]

\* the side effects run ahead of the optimizer step
ReprSeenBySideEffects_BeforeStep(before, after) == before

\* lines 334-341: optimizer.step() comes before every side effect of the
\* iteration, which therefore read the updated representation
ReprSeenBySideEffects(before, after) == after

\* what a reader of the representation finds: its updates and its resolution
Seen(grid) == Some([n_steps |-> grid.n_steps, grid_dims |-> grid.grid_dims])

\* the feedback rendering the diffuse version only under the regularization
LogDiffuseRenderedVersion_Toggle == args.apply_diffuse_render_regularization

\* line 406: log_diffuse_rendered_version=True
LogDiffuseRenderedVersion == TRUE

\* lines 275-286: one flattened H x W bundle of rays per pose of the batch
RaysPoolSize(n_poses) ==
    n_poses * args.train_dataset.height * args.train_dataset.width

\* lines 289-293: images [B x C x H x W] reshaped to [B * H * W x C]
PixelsPoolSize(n_images) ==
    n_images * args.train_dataset.height * args.train_dataset.width

\* the grid of the next stage initialised afresh, as the first one is
StageTransition_Rerandomize(grid, s, new_id) ==
    random_initializer(scale_voxel_grid_with_required_output_size(
        grid, stagewise_voxel_grid_sizes[s + 1], "trilinear", new_id))

\* lines 453-457: the representation a finished stage hands to the next
StageTransition(grid, s, new_id) ==
    scale_voxel_grid_with_required_output_size(
        grid, NextStageGridSize(s), "trilinear", new_id)

\* the feedback check chained as an elif after the learning-rate step
FeedbackTrigger_Elif(g, it) ==
    /\ ~LrStepTrigger(it)
    /\ \/ g % args.feedback_freq = 0
       \/ it = 1
       \/ it = args.num_iterations_per_stage

\* lines 391-395
FeedbackTrigger(g, it) ==
    \/ g % args.feedback_freq = 0
    \/ it = 1
    \/ it = args.num_iterations_per_stage

\* the evaluation forced on the first iteration of a stage as well
TestTrigger_ForcedFirst(g, it) ==
    /\ test_dl # None
    /\ ~args.fast_debug_mode
    /\ \/ g % args.test_freq = 0
       \/ it = 1
       \/ it = args.num_iterations_per_stage

\* lines 412-419
TestTrigger(g, it) ==
    /\ test_dl # None
    /\ ~args.fast_debug_mode
    /\ \/ g % args.test_freq = 0
       \/ it = args.num_iterations_per_stage

\* the save not forced on the first iteration of a stage
SaveTrigger_NoFirst(g, it) ==
    \/ g % args.save_freq = 0
    \/ it = args.num_iterations_per_stage

\* lines 429-433
SaveTrigger(g, it) ==
    \/ g % args.save_freq = 0
    \/ it = 1
    \/ it = args.num_iterations_per_stage

\* the snapshot named by its stage alone
SnapshotName_StageOnly(s, g) ==
    <<"model_stage_">> \o FormatInt(s) \o <<".pth">>

\* line 445: f"model_stage_{stage}_iter_{global_step}.pth"
SnapshotName(s, g) ==
    <<"model_stage_">> \o FormatInt(s) \o <<"_iter_">> \o FormatInt(g)
        \o <<".pth">>

\* the final model written over the last periodic snapshot
FinalModelName_Clobber == SnapshotName(stage, global_step)

\* line 471
FinalModelName == <<"model_final", ".pth">>

\* vol_mod.get_save_info(...): what a saved file holds of the representation
SaveInfo == [grid_dims |-> vol_mod.thre3d_repr.grid_dims,
             n_steps |-> vol_mod.thre3d_repr.n_steps,
             n_randomized |-> vol_mod.thre3d_repr.n_randomized,
             n_resampled |-> vol_mod.thre3d_repr.n_resampled]

\* torch.save(content, directory / name): creates or overwrites the file
TorchSave(directory, name, content) ==
    [n \in (DOMAIN directory) \cup {name} |->
        IF n = name THEN content ELSE directory[n]]

\* lines 349-360: the scalars handed to tensorboard_writer.add_scalar
\* (the names whose value is not None)
SummaryScalars(spec_loss, diff_loss, spec_psnr, diff_psnr, total, epochs) ==
    {p[1] : p \in {q \in {<<"specular_loss", spec_loss>>,
                          <<"diffuse_loss", diff_loss>>,
                          <<"specular_psnr", spec_psnr>>,
                          <<"diffuse_psnr", diff_psnr>>,
                          <<"total_loss", total>>,
                          <<"num_epochs", epochs>>} : q[2] # Nothing}}

\* line 355: (ray_batch_size * global_step) / dataset_size, as a rational
NumEpochs(g) == <<args.ray_batch_size * g, dataset_size>>

LossVals == 0..MaxLoss

NoIteration ==
    [global_step |-> 0, stage |-> 0, stage_iteration |-> 0,
     grid_dims |-> Nothing, diffuse_pass |-> FALSE,
     specular_loss |-> Nothing, diffuse_loss |-> Nothing,
     backward_loss |-> Nothing,
     optimizer_used |-> 0, params_stepped |-> 0,
     summary |-> FALSE, scalars |-> {}, scalar_step |-> Nothing,
     num_epochs |-> Nothing,
     console |-> FALSE, lr_step |-> FALSE,
     feedback |-> FALSE, feedback_pose |-> None, feedback_step |-> Nothing,
     test |-> FALSE, save |-> FALSE, save_name |-> Nothing,
     images |-> 0, rays |-> 0, pixels |-> 0, sample_size |-> 0,
     lr_used |-> <<0, 1>>, decays_used |-> 0,
     loss_seen |-> Nothing, feedback_seen |-> Nothing,
     test_seen |-> Nothing, save_seen |-> Nothing,
     feedback_specular |-> FALSE, feedback_diffuse |-> FALSE]

NoCounts ==
    [downscale |-> 0, resize |-> 0, optimizers |-> 0, schedulers |-> 0,
     iterations |-> 0, summary |-> 0, console |-> 0, lr_step |-> 0,
     feedback |-> 0, test |-> 0, save |-> 0, final_save |-> 0,
     mkdir |-> 0, camera_rays |-> 0, randomize |-> 0]

\* the state on entry, for a given set of arguments
Entry(a) ==
    /\ args = a
    /\ pc = "init"
    /\ stage = 0
    /\ stage_iteration = 0
    /\ global_step = 0
    /\ vol_mod = [thre3d_repr |->
                    [id |-> 1, type |-> a.vol_mod_repr_type,
                     n_params |-> a.vol_mod_n_params,
                     grid_dims |-> a.vol_mod_grid_dims,
                     n_resampled |-> 0, modes |-> {},
                     n_randomized |-> 0, n_steps |-> 0],
                  render_procedure |-> a.vol_mod_render_procedure]
    /\ stagewise_voxel_grid_sizes = <<>>
    /\ render_feedback_pose = a.render_feedback_pose
    /\ test_dl = None
    /\ train_dl = [len |-> 0]
    /\ dataset_size = 0
    /\ optimizer = NoOptimizer
    /\ lr_scheduler = NoLrScheduler
    /\ n_objects = 1
    /\ last = NoIteration
    /\ counts = NoCounts
    /\ tensorboard_writer = {}
    /\ model_dir = <<>>
    /\ render_dir = {}
    /\ returned = Nothing
    /\ error = None

\* lines 108-231: everything before the main training loop
Initialize ==
    /\ pc = "init"
    /\ AssertionsHold
    /\ LET sizes == compute_thre3d_grid_sizes(vol_mod.thre3d_repr.grid_dims,
                        args.num_stages, args.scale_factor)
           scaled == scale_voxel_grid_with_required_output_size(
                        vol_mod.thre3d_repr, sizes[1], "trilinear",
                        n_objects + 1)
       IN /\ stagewise_voxel_grid_sizes' = sizes
          /\ vol_mod' = [vol_mod EXCEPT !.thre3d_repr =
                                           random_initializer(scaled)]
          /\ n_objects' = n_objects + 1
    /\ counts' = [counts EXCEPT
                      !.downscale = @ + 1,
                      !.randomize = @ + 1,
                      !.mkdir = @ + 1,
                      !.camera_rays = IF ~args.fast_debug_mode
                                      THEN @ + 1 ELSE @]
    /\ render_feedback_pose' = ResolvedFeedbackPose
    /\ train_dl' = DataLoader(args.train_dataset,
                              args.image_batch_cache_size, TRUE)
    /\ test_dl' = IF args.test_dataset # None THEN "test_dl" ELSE None
    /\ dataset_size' = DataLoader(args.train_dataset,
                                  args.image_batch_cache_size, TRUE).len
                            * args.train_dataset.height
                            * args.train_dataset.width
    /\ render_dir' = IF args.render_feedback_pose = None
                     THEN {<<"1__real_log", ".png">>} ELSE {}
    /\ stage' = 1
    /\ pc' = IF args.num_stages >= 1 THEN "stage_begin" ELSE "finalize"
    /\ UNCHANGED <<args, stage_iteration, global_step, optimizer,
                   lr_scheduler, last, tensorboard_writer, model_dir,
                   returned, error>>

\* lines 109-115: an assertion fails, AssertionError leaves the function
AssertionFails ==
    /\ pc = "init"
    /\ ~AssertionsHold
    /\ pc' = "aborted"
    /\ error' = "AssertionError"
    /\ UNCHANGED <<args, stage, stage_iteration, global_step, vol_mod,
                   stagewise_voxel_grid_sizes, render_feedback_pose, train_dl,
                   test_dl, dataset_size, optimizer, lr_scheduler, n_objects,
                   last, counts, tensorboard_writer, model_dir, render_dir,
                   returned>>

\* lines 239-246: the parameter set of the representation is empty and the
\* assertion on it, or the constructor of the optimizer, raises.  Whether either
\* does depends on what parameters() returns (a generator is always truthy),
\* so BeginStage is enabled on an empty set as well.
EmptyParametersFail ==
    /\ pc = "stage_begin"
    /\ vol_mod.thre3d_repr.n_params = 0
    /\ pc' = "aborted"
    /\ \E e \in {"AssertionError", "ValueError"} : error' = e
    /\ UNCHANGED <<args, stage, stage_iteration, global_step, vol_mod,
                   stagewise_voxel_grid_sizes, render_feedback_pose, train_dl,
                   test_dl, dataset_size, optimizer, lr_scheduler, n_objects,
                   last, counts, tensorboard_writer, model_dir, render_dir,
                   returned>>

\* lines 236-262: the head of one stage
BeginStage ==
    /\ pc = "stage_begin"
    /\ optimizer' = NewOptimizer(stage, n_objects + 1)
    /\ lr_scheduler' = NewLrScheduler(n_objects + 1, n_objects + 2)
    /\ n_objects' = n_objects + 2
    /\ counts' = [counts EXCEPT !.optimizers = @ + 1, !.schedulers = @ + 1]
    /\ stage_iteration' = 0
    /\ pc' = "iter"
    /\ UNCHANGED <<args, stage, global_step, vol_mod,
                   stagewise_voxel_grid_sizes, render_feedback_pose, train_dl,
                   test_dl, dataset_size,
                   last, tensorboard_writer, model_dir, render_dir, returned,
                   error>>

\* lines 273-335: with no parameter to differentiate, total_loss.backward()
\* raises before the optimizer steps
BackwardFails ==
    /\ pc = "iter"
    /\ stage_iteration < args.num_iterations_per_stage
    /\ train_dl.len > 0
    /\ vol_mod.thre3d_repr.n_params = 0
    /\ pc' = "aborted"
    /\ error' = "RuntimeError"
    /\ UNCHANGED <<args, stage, stage_iteration, global_step, vol_mod,
                   stagewise_voxel_grid_sizes, render_feedback_pose, train_dl,
                   test_dl, dataset_size, optimizer, lr_scheduler, n_objects,
                   last, counts, tensorboard_writer, model_dir, render_dir,
                   returned>>

\* lines 266-446: one iteration of the inner loop
TrainIteration ==
    /\ pc = "iter"
    /\ stage_iteration < args.num_iterations_per_stage
    \* line 273: next() of the cycled loader returns only if it has a batch
    /\ train_dl.len > 0
    /\ vol_mod.thre3d_repr.n_params > 0
    /\ \E specular_loss \in LossVals, diffuse_render_loss \in LossVals :
       LET it == stage_iteration + 1
           diffuse == args.apply_diffuse_render_regularization
           \* lines 306-331
           specular_loss_value == Some(specular_loss)
           specular_psnr_value == Some(specular_loss)
           diffuse_loss_value == DiffuseLossValue(diffuse_render_loss)
           diffuse_psnr_value == DiffuseLossValue(diffuse_render_loss)
           total_loss == Some(TotalLoss(specular_loss, diffuse_render_loss))
           \* line 341
           g == GlobalStep(stage, it)
           do_summary == SummaryTrigger(g, it)
           do_console == ConsoleTrigger(g, it)
           do_lr == LrStepTrigger(it)
           do_feedback == FeedbackTrigger(g, it)
           do_test == TestTrigger(g, it)
           do_save == SaveTrigger(g, it)
           scalars == SummaryScalars(specular_loss_value, diffuse_loss_value,
                                     specular_psnr_value, diffuse_psnr_value,
                                     total_loss, Some(NumEpochs(g)))
           \* lines 334-336: the step updates the parameters the optimizer holds
           updated == ReprSeenBySideEffects(
                          vol_mod.thre3d_repr,
                          IF optimizer.params = vol_mod.thre3d_repr.id
                          THEN ParametersAfterStep(vol_mod.thre3d_repr)
                          ELSE vol_mod.thre3d_repr)
           \* lines 391-409
           shown == IF do_feedback
                    THEN visualize_sh_vox_grid_vol_mod_rendered_feedback(
                             updated)
                    ELSE updated
           \* lines 412-426
           stepped == IF do_test
                      THEN test_sh_vox_grid_vol_mod_with_posed_images(shown)
                      ELSE shown
       IN /\ (diffuse \/ diffuse_render_loss = 0)
          /\ stage_iteration' = it
          /\ global_step' = g
          /\ vol_mod' = [vol_mod EXCEPT !.thre3d_repr = stepped]
          /\ optimizer' = IF do_lr
                          THEN LrSchedulerStep([optimizer EXCEPT
                                                   !.n_steps = @ + 1])
                          ELSE [optimizer EXCEPT !.n_steps = @ + 1]
          /\ lr_scheduler' = [lr_scheduler EXCEPT
                                 !.n_decays = IF do_lr THEN @ + 1 ELSE @]
          /\ tensorboard_writer' =
                IF do_summary
                THEN tensorboard_writer \cup scalars
                ELSE tensorboard_writer
          /\ render_dir' = IF do_feedback
                           THEN render_dir \cup {<<"feedback", g>>}
                           ELSE render_dir
          /\ model_dir' =
                IF do_save
                THEN TorchSave(model_dir, SnapshotName(stage, g),
                               [grid_dims |-> stepped.grid_dims,
                                n_steps |-> stepped.n_steps,
                                n_randomized |-> stepped.n_randomized,
                                n_resampled |-> stepped.n_resampled])
                ELSE model_dir
          /\ last' =
                [global_step |-> g,
                 stage |-> stage,
                 stage_iteration |-> it,
                 grid_dims |-> Some(vol_mod.thre3d_repr.grid_dims),
                 diffuse_pass |-> diffuse,
                 specular_loss |-> specular_loss_value,
                 diffuse_loss |-> diffuse_loss_value,
                 backward_loss |-> total_loss,
                 optimizer_used |-> optimizer.id,
                 params_stepped |-> optimizer.params,
                 summary |-> do_summary,
                 scalars |-> IF do_summary THEN scalars ELSE {},
                 scalar_step |-> IF do_summary THEN Some(g) ELSE Nothing,
                 num_epochs |-> IF do_summary THEN Some(NumEpochs(g))
                                ELSE Nothing,
                 console |-> do_console,
                 lr_step |-> do_lr,
                 feedback |-> do_feedback,
                 feedback_pose |-> IF do_feedback
                                   THEN render_feedback_pose ELSE None,
                 feedback_step |-> IF do_feedback THEN Some(g) ELSE Nothing,
                 test |-> do_test,
                 save |-> do_save,
                 save_name |-> IF do_save
                               THEN SnapshotName(stage, g) ELSE Nothing,
                 images |-> args.image_batch_cache_size,
                 rays |-> RaysPoolSize(args.image_batch_cache_size),
                 pixels |-> PixelsPoolSize(args.image_batch_cache_size),
                 sample_size |-> args.ray_batch_size,
                 lr_used |-> optimizer.lr,
                 decays_used |-> lr_scheduler.n_decays,
                 loss_seen |-> Seen(vol_mod.thre3d_repr),
                 feedback_seen |-> IF do_feedback THEN Seen(updated)
                                   ELSE Nothing,
                 test_seen |-> IF do_test THEN Seen(shown) ELSE Nothing,
                 save_seen |-> IF do_save THEN Seen(stepped) ELSE Nothing,
                 feedback_specular |-> do_feedback,
                 feedback_diffuse |-> do_feedback
                                      /\ LogDiffuseRenderedVersion]
          /\ counts' =
                [counts EXCEPT
                    !.iterations = @ + 1,
                    !.summary = IF do_summary THEN @ + 1 ELSE @,
                    !.console = IF do_console THEN @ + 1 ELSE @,
                    !.lr_step = IF do_lr THEN @ + 1 ELSE @,
                    !.feedback = IF do_feedback THEN @ + 1 ELSE @,
                    !.test = IF do_test THEN @ + 1 ELSE @,
                    !.save = IF do_save THEN @ + 1 ELSE @]
    /\ UNCHANGED <<args, pc, stage, stagewise_voxel_grid_sizes,
                   render_feedback_pose, train_dl,
                   test_dl, dataset_size, n_objects, returned, error>>

\* lines 449-458: the end of one stage, after its last iteration
EndStage ==
    /\ pc = "iter"
    /\ stage_iteration >= args.num_iterations_per_stage
    /\ IF stage # args.num_stages
       THEN /\ vol_mod' = [vol_mod EXCEPT !.thre3d_repr =
                                StageTransition(@, stage, n_objects + 1)]
            /\ n_objects' = n_objects + 1
            /\ counts' = [counts EXCEPT !.resize = @ + 1]
            /\ stage' = stage + 1
            /\ pc' = "stage_begin"
       ELSE /\ pc' = "finalize"
            /\ UNCHANGED <<vol_mod, n_objects, counts, stage>>
    /\ UNCHANGED <<args, stage_iteration, global_step,
                   stagewise_voxel_grid_sizes, render_feedback_pose, train_dl,
                   test_dl, dataset_size,
                   optimizer, lr_scheduler, last, tensorboard_writer,
                   model_dir, render_dir, returned, error>>

\* lines 461-476: the final model file, and the return
Finalize ==
    /\ pc = "finalize"
    /\ model_dir' = TorchSave(model_dir, FinalModelName, SaveInfo)
    /\ counts' = [counts EXCEPT !.final_save = @ + 1]
    /\ returned' = Some(vol_mod.thre3d_repr)
    /\ pc' = "done"
    /\ UNCHANGED <<args, stage, stage_iteration, global_step, vol_mod,
                   stagewise_voxel_grid_sizes, render_feedback_pose, train_dl,
                   test_dl, dataset_size,
                   optimizer, lr_scheduler, n_objects, last,
                   tensorboard_writer, render_dir, error>>

Next ==
    \/ Initialize \/ AssertionFails \/ EmptyParametersFail \/ BeginStage
    \/ BackwardFails \/ TrainIteration \/ EndStage \/ Finalize

\* ------------------------------------------------------------ specifications
\* the arguments every specification below starts from
BaseArgs ==
    [vol_mod_repr_type |-> "VoxelGrid",
     vol_mod_render_procedure |-> "render_sh_voxel_grid",
     vol_mod_n_params |-> 2,
     vol_mod_grid_dims |-> <<8, 8, 8>>,
     num_stages |-> 1, num_iterations_per_stage |-> 1, scale_factor |-> 2,
     learning_rate |-> <<3, 100>>, lr_decay_gamma_per_stage |-> <<1, 2>>,
     lr_decay_steps_per_stage |-> 2, stagewise_lr_decay_gamma |-> <<9, 10>>,
     render_feedback_pose |-> None, test_dataset |-> None,
     train_dataset |-> [len |-> 2, height |-> 2, width |-> 2],
     image_batch_cache_size |-> 1, ray_batch_size |-> 2,
     save_freq |-> 2, test_freq |-> 2, feedback_freq |-> 2,
     summary_freq |-> 2, apply_diffuse_render_regularization |-> TRUE,
     fast_debug_mode |-> FALSE]

\* the model on entry: the accepted one, and one breaking each precondition
\* (representation class, render procedure, number of optimizeable parameters)
VolMods ==
    {<<"VoxelGrid", "render_sh_voxel_grid", 2>>,
     <<"OtherRepr", "render_sh_voxel_grid", 2>>,
     <<"VoxelGrid", "other_render_procedure", 2>>,
     <<"VoxelGrid", "render_sh_voxel_grid", 0>>}

WithVolMod(a, v) ==
    [a EXCEPT !.vol_mod_repr_type = v[1],
              !.vol_mod_render_procedure = v[2],
              !.vol_mod_n_params = v[3]]

\* stage and iteration counts, the save and summary cadences, the diffuse toggle
Init ==
    \E S \in 1..MaxStages, N \in 1..MaxIters,
       sf \in 1..MaxFreq, uf \in 1..MaxFreq, d \in BOOLEAN, v \in VolMods :
        Entry(WithVolMod(
              [BaseArgs EXCEPT !.num_stages = S,
                               !.num_iterations_per_stage = N,
                               !.save_freq = sf, !.summary_freq = uf,
                               !.apply_diffuse_render_regularization = d], v))

Spec == Init /\ [][Next]_vars

\* the feedback and test cadences against one common cadence of the other
\* effects, the held-out set, fast-debug mode, the supplied feedback pose
InitSide ==
    \E S \in 1..MaxStages, N \in 1..MaxIters,
       ff \in 1..MaxSideFreq, tf \in 1..MaxSideFreq, cf \in {1, MaxSideFreq},
       td \in {None, "test_dataset"}, fd \in BOOLEAN,
       fp \in {None, "user_pose"}, v \in VolMods :
        Entry(WithVolMod(
              [BaseArgs EXCEPT !.num_stages = S,
                               !.num_iterations_per_stage = N,
                               !.feedback_freq = ff, !.test_freq = tf,
                               !.save_freq = cf, !.summary_freq = cf,
                               !.lr_decay_steps_per_stage = cf,
                               !.test_dataset = td, !.fast_debug_mode = fd,
                               !.render_feedback_pose = fp,
                               !.apply_diffuse_render_regularization = FALSE],
              v))

SpecSide == InitSide /\ [][Next]_vars

\* the resolution on entry, the scale factor, the learning-rate arguments
InitOpt ==
    \E S \in 1..MaxStages, N \in 1..MaxIters, ds \in 1..MaxSideFreq,
       dims \in {<<8, 8, 8>>, <<5, 6, 7>>, <<1, 2, 3>>}, f \in {2, 3},
       sg \in {<<9, 10>>, <<1, 2>>}, dg \in {<<1, 2>>, <<1, 3>>},
       v \in VolMods :
        Entry(WithVolMod(
              [BaseArgs EXCEPT !.num_stages = S,
                               !.num_iterations_per_stage = N,
                               !.lr_decay_steps_per_stage = ds,
                               !.vol_mod_grid_dims = dims,
                               !.scale_factor = f,
                               !.stagewise_lr_decay_gamma = sg,
                               !.lr_decay_gamma_per_stage = dg,
                               !.apply_diffuse_render_regularization = FALSE],
              v))

SpecOpt == InitOpt /\ [][Next]_vars

\* the size of the training set and of its images, the number of images per
\* batch, the number of rays per iteration
InitData ==
    \E S \in 1..MaxStages, N \in 1..MaxIters, n \in 1..MaxTrain,
       b \in 1..MaxCache, r \in 1..MaxRays, h \in {1, 2}, v \in VolMods :
        Entry(WithVolMod(
              [BaseArgs EXCEPT !.num_stages = S,
                               !.num_iterations_per_stage = N,
                               !.train_dataset =
                                   [len |-> n, height |-> h, width |-> 2],
                               !.image_batch_cache_size = b,
                               !.ray_batch_size = r,
                               !.apply_diffuse_render_regularization = FALSE],
              v))

SpecData == InitData /\ [][Next]_vars

\* ------------------------------------------------------------------- claims
IterationRan == last.global_step > 0

\* C1: the global step of the inner loop is
\* (stage-1)*num_iterations_per_stage + stage_iteration; it is 1 in the first
\* iteration, grows by exactly 1 with every inner-loop iteration, also across
\* a stage boundary (so it always equals the number of iterations run), and
\* the run ends with it at num_stages*num_iterations_per_stage.
C1_GlobalStepCountsIterations ==
    /\ global_step = counts.iterations
    /\ last.global_step = global_step
    /\ (pc = "iter" /\ stage_iteration >= 1) =>
          global_step =
            (stage - 1) * args.num_iterations_per_stage + stage_iteration
    /\ pc \in {"finalize", "done"} =>
          global_step = args.num_stages * args.num_iterations_per_stage

\* the first iteration of the second stage of a run with longer stages
C1_Witness ==
    /\ pc = "iter"
    /\ stage = 2
    /\ stage_iteration = 1
    /\ args.num_iterations_per_stage >= 2
    /\ global_step = args.num_iterations_per_stage + 1

ScenarioA ==
    /\ args.num_stages = 1
    /\ args.num_iterations_per_stage = 5
    /\ args.save_freq = 5
    /\ args.summary_freq = 1

\* C2: a complete run with num_stages=1, num_iterations_per_stage=5,
\* save_freq=5, summary_freq=1 has made exactly 5 scalar-logging events and
\* exactly 2 periodic checkpoints, the files of iteration 1 and iteration 5,
\* and has written the final model file besides.
C2_ScenarioA ==
    (ScenarioA /\ pc = "done") =>
        /\ counts.summary = 5
        /\ counts.console = 5
        /\ counts.save = 2
        /\ counts.final_save = 1
        /\ DOMAIN model_dir =
              {<<"model_stage_", "1", "_iter_", "1", ".pth">>,
               <<"model_stage_", "1", "_iter_", "5", ".pth">>,
               <<"model_final", ".pth">>}

C2_Witness == ScenarioA /\ pc = "done" /\ counts.iterations = 5

\* C3: with apply_diffuse_render_regularization False no iteration makes the
\* diffuse pass over the ray batch, the metrics sink never receives
\* diffuse_loss or diffuse_psnr, and the loss back-propagated is the specular
\* loss; with it True the loss back-propagated is specular plus diffuse loss
\* and a logging step emits all four quantities.
C3_DiffuseToggle ==
    IF args.apply_diffuse_render_regularization
    THEN IterationRan =>
           /\ last.diffuse_pass
           /\ last.diffuse_loss # Nothing
           /\ last.backward_loss =
                 Some(last.specular_loss[1] + last.diffuse_loss[1])
           /\ last.summary =>
                 {"specular_loss", "diffuse_loss", "specular_psnr",
                  "diffuse_psnr"} \subseteq last.scalars
    ELSE /\ "diffuse_loss" \notin tensorboard_writer
         /\ "diffuse_psnr" \notin tensorboard_writer
         /\ IterationRan =>
               /\ ~last.diffuse_pass
               /\ last.diffuse_loss = Nothing
               /\ last.backward_loss = last.specular_loss
               /\ last.scalars \cap {"diffuse_loss", "diffuse_psnr"} = {}

\* a logging iteration of the second stage with the regularization off and
\* a specular loss that is not zero
C3_Witness ==
    /\ ~args.apply_diffuse_render_regularization
    /\ stage = 2
    /\ last.summary
    /\ last.specular_loss = Some(1)
    /\ last.backward_loss = Some(1)
    /\ "total_loss" \in tensorboard_writer

\* C4: the feedback pose is resolved during initialization (the supplied pose,
\* else the pose of sample 0 of the held-out set if there is one, else of the
\* training set) and never changes: every feedback rendering of every stage
\* is given that pose.
C4_FeedbackPoseFixed ==
    LET expected ==
            IF args.render_feedback_pose # None
            THEN args.render_feedback_pose
            ELSE IF args.test_dataset # None
                 THEN "pose_0_of_test_dataset"
                 ELSE "pose_0_of_train_dataset"
    IN /\ counts.downscale > 0 => render_feedback_pose = expected
       /\ last.feedback => last.feedback_pose = expected

\* a feedback rendering in the third stage with the pose derived from the
\* held-out set
C4_Witness ==
    /\ args.render_feedback_pose = None
    /\ args.test_dataset # None
    /\ last.stage = 3
    /\ last.feedback
    /\ last.feedback_pose = "pose_0_of_test_dataset"

\* C5: given a list r of num_stages resolutions whose last one is the
\* resolution on entry, every iteration of stage s runs at r[s] (1-based
\* here), the resolution changes only by the initial downscale and by one
\* resize after each stage but the last (so num_stages - 1 of them in all),
\* and the last stage and the returned representation have the resolution
\* that came in.
C5_ResolutionSchedule ==
    LET S == args.num_stages
        r == stagewise_voxel_grid_sizes
        grid == vol_mod.thre3d_repr
    IN (pc # "init" /\ Len(r) = S /\ r[S] = args.vol_mod_grid_dims) =>
        /\ counts.downscale = 1
        /\ grid.n_resampled = counts.downscale + counts.resize
        /\ pc \in {"stage_begin", "iter"} =>
              /\ grid.grid_dims = r[stage]
              /\ counts.resize = stage - 1
        /\ IterationRan => last.grid_dims = Some(r[last.stage])
        /\ pc \in {"finalize", "done"} =>
              /\ counts.resize = S - 1
              /\ grid.grid_dims = args.vol_mod_grid_dims
              /\ last.grid_dims = Some(args.vol_mod_grid_dims)
        /\ pc = "done" =>
              returned[1].grid_dims = args.vol_mod_grid_dims

\* a finished run of three stages that came in at 5 x 6 x 7
C5_Witness ==
    /\ pc = "done"
    /\ args.num_stages = 3
    /\ args.vol_mod_grid_dims = <<5, 6, 7>>
    /\ stagewise_voxel_grid_sizes[1] # stagewise_voxel_grid_sizes[2]
    /\ counts.resize = 2
    /\ returned[1].grid_dims = <<5, 6, 7>>

\* C6: a snapshot is written at global step g exactly when g % save_freq = 0
\* or the iteration is the first or the last of its stage; its file is named
\* by the stage and g, so the snapshot files are as many as the triggered
\* steps, and none has the name of the final model file.
C6_PeriodicCheckpoints ==
    /\ IterationRan =>
          /\ last.save <=>
                \/ last.global_step % args.save_freq = 0
                \/ last.stage_iteration = 1
                \/ last.stage_iteration = args.num_iterations_per_stage
          /\ last.save =>
                /\ last.save_name =
                      <<"model_stage_">> \o FormatInt(last.stage)
                        \o <<"_iter_">> \o FormatInt(last.global_step)
                        \o <<".pth">>
                /\ last.save_name \in DOMAIN model_dir
                /\ last.save_name # <<"model_final", ".pth">>
          /\ ~last.save => last.save_name = Nothing
    /\ Cardinality((DOMAIN model_dir) \ {<<"model_final", ".pth">>})
          = counts.save
    /\ counts.save <= counts.iterations

\* a step in the middle of a later stage saved by the period alone, with a
\* step number of two digits
C6_Witness ==
    /\ last.save
    /\ last.stage = 3
    /\ last.stage_iteration \notin {1, args.num_iterations_per_stage}
    /\ last.global_step >= 10
    /\ counts.save < counts.iterations

\* C7: the held-out evaluation runs at global step g exactly when a held-out
\* set was given, fast_debug_mode is off, and g % test_freq = 0 or the
\* iteration is the last of its stage; the first iteration of a stage does
\* not force it, and with fast_debug_mode on no evaluation ever runs.
C7_HeldOutEvaluation ==
    /\ IterationRan =>
          (last.test <=>
              /\ args.test_dataset # None
              /\ ~args.fast_debug_mode
              /\ \/ last.global_step % args.test_freq = 0
                 \/ last.stage_iteration = args.num_iterations_per_stage)
    /\ args.fast_debug_mode => counts.test = 0
    /\ args.test_dataset = None => counts.test = 0

\* the first iteration of a stage, off the test period, with a held-out set
\* and fast_debug_mode off: feedback is forced, the evaluation is not
C7_Witness ==
    /\ args.test_dataset # None
    /\ ~args.fast_debug_mode
    /\ last.stage_iteration = 1
    /\ args.num_iterations_per_stage > 1
    /\ last.global_step % args.test_freq # 0
    /\ last.feedback
    /\ ~last.test
    /\ counts.test > 0

\* C8: scalar logging fires at global step g exactly when g % summary_freq = 0
\* or the iteration is the first or the last of its stage; then the scalars
\* go to the metrics sink keyed by g and one line goes to the text log, and
\* on every other step neither happens.
C8_ScalarLogging ==
    /\ IterationRan =>
          LET fires ==
                \/ last.global_step % args.summary_freq = 0
                \/ last.stage_iteration = 1
                \/ last.stage_iteration = args.num_iterations_per_stage
          IN /\ last.summary <=> fires
             /\ last.console <=> fires
             /\ fires =>
                   /\ {"specular_loss", "specular_psnr", "total_loss",
                       "num_epochs"} \subseteq last.scalars
                   /\ last.scalar_step = Some(last.global_step)
             /\ ~fires =>
                   /\ last.scalars = {}
                   /\ last.scalar_step = Nothing
    /\ counts.console = counts.summary

\* a silent step after a step in the middle of a stage logged by the period
C8_Witness ==
    /\ IterationRan
    /\ ~last.summary
    /\ ~last.console
    /\ counts.summary >= 2
    /\ last.global_step > args.summary_freq
    /\ last.stage_iteration > args.summary_freq + 1

\* C9: visual feedback is rendered at global step g exactly when
\* g % feedback_freq = 0 or the iteration is the first or the last of its
\* stage, whatever else fires on that step; every such step leaves one
\* feedback artifact identified by g.
C9_VisualFeedback ==
    /\ IterationRan =>
          /\ last.feedback <=>
                \/ last.global_step % args.feedback_freq = 0
                \/ last.stage_iteration = 1
                \/ last.stage_iteration = args.num_iterations_per_stage
          /\ last.feedback =>
                /\ last.feedback_step = Some(last.global_step)
                /\ <<"feedback", last.global_step>> \in render_dir
          /\ ~last.feedback =>
                <<"feedback", last.global_step>> \notin render_dir
    /\ Cardinality({a \in render_dir : a[1] = "feedback"}) = counts.feedback

\* a step on which feedback fires and nothing else does
C9_Witness ==
    /\ last.feedback
    /\ ~last.summary
    /\ ~last.console
    /\ ~last.lr_step
    /\ ~last.test
    /\ ~last.save
    /\ args.test_dataset # None
    /\ ~args.fast_debug_mode

\* C10: every stage s starts with one new optimizer and one new decay
\* schedule over the parameters of the representation the model then holds,
\* at the rate learning_rate * stagewise_lr_decay_gamma^(s-1) with no decay
\* applied; the optimizer state and the decays of stage s-1 are not carried
\* over, and every optimizer step updates the representation the model holds.
C10_StageOptimizer ==
    /\ pc = "iter" =>
          LET stage_lr ==
                RatMul(args.learning_rate,
                       RatPow(args.stagewise_lr_decay_gamma, stage - 1))
          IN /\ counts.optimizers = stage
             /\ counts.schedulers = stage
             /\ optimizer.params = vol_mod.thre3d_repr.id
             /\ lr_scheduler.optimizer = optimizer.id
             /\ optimizer.n_steps = stage_iteration
             /\ lr_scheduler.n_decays <= stage_iteration
             /\ stage_iteration = 0 =>
                   /\ optimizer.lr = stage_lr
                   /\ lr_scheduler.n_decays = 0
             /\ optimizer.lr =
                   RatMul(stage_lr, RatPow(args.lr_decay_gamma_per_stage,
                                           lr_scheduler.n_decays))
             /\ stage_iteration >= 1 =>
                   /\ last.params_stepped = vol_mod.thre3d_repr.id
                   /\ last.optimizer_used = optimizer.id
    /\ vol_mod.thre3d_repr.n_steps = global_step

\* the start of the third stage, after stages in which the rate was decayed
C10_Witness ==
    /\ pc = "iter"
    /\ stage = 3
    /\ stage_iteration = 0
    /\ counts.lr_step >= 2
    /\ vol_mod.thre3d_repr.n_resampled = 3
    /\ optimizer.n_steps = 0
    /\ lr_scheduler.n_decays = 0
    /\ args.stagewise_lr_decay_gamma = <<9, 10>>
    /\ optimizer.lr = <<243, 10000>>

\* C11: within a stage the decay schedule advances exactly once at stage
\* iteration i iff i is a multiple of lr_decay_steps_per_stage, and each
\* advance multiplies the rate by lr_decay_gamma_per_stage.  The advance
\* comes after the optimizer step of the iteration: the update of stage
\* iteration i is made with floor((i - 1) / lr_decay_steps_per_stage) decays
\* applied to the rate of the stage, so an advance on the last iteration of
\* a stage reaches no update.
C11_LrDecaySchedule ==
    IterationRan =>
        LET k == args.lr_decay_steps_per_stage
            it == last.stage_iteration
            N == args.num_iterations_per_stage
            gamma == args.lr_decay_gamma_per_stage
        IN /\ last.lr_step <=> (it % k = 0)
           /\ counts.lr_step = ((last.stage - 1) * (N \div k)) + (it \div k)
           /\ last.decays_used = (it - 1) \div k
           /\ last.lr_used = RatMul(CurrentStageLr(last.stage),
                                    RatPow(gamma, (it - 1) \div k))
           /\ (pc = "iter" /\ stage = last.stage /\ stage_iteration = it)
                => /\ lr_scheduler.n_decays = it \div k
                   /\ optimizer.lr = RatMul(CurrentStageLr(stage),
                                            RatPow(gamma, it \div k))

\* the third update of the second stage, after a first stage whose last
\* iteration advanced the schedule: one decay of this stage applied, none of
\* the first
C11_Witness ==
    /\ args.lr_decay_steps_per_stage = 2
    /\ args.num_iterations_per_stage = 4
    /\ last.stage = 2
    /\ last.stage_iteration = 3
    /\ ~last.lr_step
    /\ counts.lr_step = 3
    /\ last.decays_used = 1
    /\ last.lr_used = RatMul(CurrentStageLr(2), args.lr_decay_gamma_per_stage)

\* a precondition checked by the opening assertions is violated
BadModel ==
    \/ args.vol_mod_repr_type # "VoxelGrid"
    \/ args.vol_mod_render_procedure # "render_sh_voxel_grid"

\* nothing has been done yet: the representation is the one passed in, no
\* directory or file exists, no iteration has run
NoWorkDone ==
    /\ counts = NoCounts
    /\ vol_mod.thre3d_repr.id = 1
    /\ vol_mod.thre3d_repr.n_resampled = 0
    /\ vol_mod.thre3d_repr.n_randomized = 0
    /\ render_dir = {}
    /\ DOMAIN model_dir = {}
    /\ tensorboard_writer = {}

\* C12 as stated: whichever precondition is violated (representation class,
\* render procedure, empty set of optimizeable parameters), the call aborts
\* before any work: no resize, no re-randomization, no output directory or
\* file, no training iteration at the moment of the abort.
C12_AbortBeforeAnyWork == pc = "aborted" => NoWorkDone

\* C12, amended: a wrong representation class or render procedure ends the
\* call at its first statements, before any work.  An empty set of
\* optimizeable parameters is met only at the head of the first stage or in
\* its first iteration: the call then ends after the downscale, the
\* re-randomization and the creation of the output directories, and before
\* any parameter update.  A call ends by an exception only for one of these
\* reasons.
C12_PreconditionAborts ==
    /\ (pc = "aborted") <=> (error # None)
    /\ BadModel => /\ pc \in {"init", "aborted"}
                   /\ NoWorkDone
                   /\ error \in {None, "AssertionError"}
    /\ (~BadModel /\ args.vol_mod_n_params = 0)
          => /\ pc \in {"init", "stage_begin", "iter", "aborted"}
             /\ stage <= 1
             /\ counts.iterations = 0
             /\ vol_mod.thre3d_repr.n_steps = 0
             /\ optimizer.n_steps = 0
             /\ DOMAIN model_dir = {}
             /\ pc = "aborted"
                  => /\ counts.downscale = 1
                     /\ counts.randomize = 1
                     /\ vol_mod.thre3d_repr.n_randomized = 1
                     /\ counts.mkdir = 1
    /\ (~BadModel /\ args.vol_mod_n_params > 0) => pc # "aborted"

\* the assertion on the parameter set fails at the head of the first stage:
\* the grid is downscaled and re-randomized, the directories exist and the
\* real feedback image is written
C12_Witness ==
    /\ pc = "aborted"
    /\ error = "AssertionError"
    /\ args.vol_mod_n_params = 0
    /\ stage = 1
    /\ counts.downscale = 1
    /\ vol_mod.thre3d_repr.n_randomized = 1
    /\ counts.mkdir = 1
    /\ <<"1__real_log", ".png">> \in render_dir

\* C13: the final checkpoint is written exactly once, after the last
\* iteration of the last stage and at no other time, under a name that no
\* periodic snapshot has, whatever save_freq is and beside the periodic
\* snapshot of the last step; the representation is returned after it and
\* not before.
C13_FinalCheckpoint ==
    LET S == args.num_stages
        N == args.num_iterations_per_stage
        final == <<"model_final", ".pth">>
        periodic == {SnapshotName(s, g) : s \in 1..S, g \in 1..(S * N)}
    IN /\ final \notin periodic
       /\ counts.final_save = IF pc = "done" THEN 1 ELSE 0
       /\ (final \in DOMAIN model_dir) <=> (pc = "done")
       /\ (returned # Nothing) <=> (pc = "done")
       /\ DOMAIN model_dir \subseteq periodic \cup {final}
       /\ pc \in {"finalize", "done"}
            => /\ counts.iterations = S * N
               /\ last.stage = S
               /\ last.stage_iteration = N
       /\ pc = "done"
            => /\ returned = Some(vol_mod.thre3d_repr)
               /\ model_dir[final].n_steps = S * N
               /\ model_dir[final].grid_dims = args.vol_mod_grid_dims
               /\ SnapshotName(S, S * N) \in DOMAIN model_dir
               /\ Cardinality(DOMAIN model_dir) = counts.save + 1

\* a finished run of three stages of three iterations with save_freq 4: the
\* final checkpoint stands beside the seven periodic snapshots
C13_Witness ==
    /\ pc = "done"
    /\ args.num_stages = 3
    /\ args.num_iterations_per_stage = 3
    /\ args.save_freq = 4
    /\ counts.final_save = 1
    /\ counts.save = 7
    /\ <<"model_final", ".pth">> \in DOMAIN model_dir
    /\ Cardinality(DOMAIN model_dir) = 8
    /\ returned = Some(vol_mod.thre3d_repr)

\* C14: an iteration changes the representation by its one optimizer step
\* and nothing else, whichever of scalar logging, console line, feedback,
\* held-out evaluation and checkpoint it fires; it leaves the optimizer and
\* the schedule those of the stage, the learning-rate step changing the rate
\* of the optimizer and nothing else of it.  The representation changes only
\* in the initial downscale and re-randomization, in the optimizer step of an
\* iteration and in the resize of a stage transition.
C14_SideEffectsFrame ==
    [][LET iteration == pc = "iter" /\ global_step' # global_step
           grid == vol_mod.thre3d_repr
       IN /\ iteration =>
               /\ vol_mod'.thre3d_repr = [grid EXCEPT !.n_steps = @ + 1]
               /\ optimizer' =
                     [optimizer EXCEPT
                         !.n_steps = @ + 1,
                         !.lr = IF last'.lr_step
                                THEN RatMul(@, args.lr_decay_gamma_per_stage)
                                ELSE @]
               /\ lr_scheduler' =
                     [lr_scheduler EXCEPT
                         !.n_decays = IF last'.lr_step THEN @ + 1 ELSE @]
          /\ vol_mod' # vol_mod =>
               \/ pc = "init" /\ pc' # "aborted"
               \/ iteration
               \/ pc = "iter" /\ pc' = "stage_begin"
          /\ vol_mod'.thre3d_repr.grid_dims # grid.grid_dims =>
               \/ pc = "init"
               \/ pc = "iter" /\ pc' = "stage_begin"]_vars

\* an iteration that logged scalars, printed, stepped the schedule, rendered
\* feedback, evaluated and saved has left the representation with one
\* update per iteration and the optimizer with one step per stage iteration
C14_Witness ==
    /\ last.global_step = 6
    /\ last.summary /\ last.console /\ last.lr_step /\ last.feedback
    /\ last.test /\ last.save
    /\ pc = "iter"
    /\ vol_mod.thre3d_repr.n_steps = 6
    /\ vol_mod.thre3d_repr.n_resampled = 2
    /\ optimizer.n_steps = 3
    /\ lr_scheduler.n_decays = 1

\* the call passes the opening assertions and has parameters to optimize
GoodModel == ~BadModel /\ args.vol_mod_n_params > 0

\* C15 as stated: for every num_stages >= 1 and num_iterations_per_stage >= 1
\* the controller goes through the stages 1..S in increasing order and is
\* done after exactly S * N iterations of one optimizer step each, never
\* stopping short of that; fast_debug_mode decides only whether the held-out
\* evaluation and the start-up visualization of the camera rays happen.
C15_RunsToDone ==
    LET S == args.num_stages
        N == args.num_iterations_per_stage
    IN GoodModel =>
        /\ pc = "done" \/ ENABLED Next
        /\ pc \notin {"init", "aborted"} => stage \in 1..S
        /\ counts.iterations = vol_mod.thre3d_repr.n_steps
        /\ pc \in {"finalize", "done"} => counts.iterations = S * N
        /\ args.fast_debug_mode => counts.test = 0 /\ counts.camera_rays = 0
        /\ (~args.fast_debug_mode /\ pc # "init") => counts.camera_rays = 1

\* C16 as stated: the num_epochs scalar logged at global step g equals
\* ray_batch_size * g divided by the number of pixels of the training set
\* (training images x height x width), whatever image_batch_cache_size and
\* the size of the training set are, and the divisor is never zero.
C16_NumEpochs ==
    last.num_epochs # Nothing =>
        LET logged == last.num_epochs[1]
            pixels == args.train_dataset.len * args.train_dataset.height
                        * args.train_dataset.width
        IN /\ logged[2] # 0
           /\ logged[1] * pixels
                = (args.ray_batch_size * last.global_step) * logged[2]

\* C17 as stated: in every iteration the pool of rays and the pool of
\* pixels have the same size, images_in_batch * H * W, and the number of
\* rays asked of the sampler is no larger than that pool.
C17_SampleWithinPool ==
    IterationRan =>
        /\ last.images = args.image_batch_cache_size
        /\ last.rays = last.pixels
        /\ last.rays = last.images * args.train_dataset.height
                          * args.train_dataset.width
        /\ last.sample_size <= last.rays

\* C20 as stated: for every training set of at least one image and every
\* image_batch_cache_size >= 1, each time the controller asks for the next
\* batch there is one to return, of exactly image_batch_cache_size images.
C20_NeverOutOfData ==
    /\ (pc = "iter" /\ stage_iteration < args.num_iterations_per_stage)
         => train_dl.len > 0
    /\ IterationRan => last.images = args.image_batch_cache_size

\* C18 as stated: a feedback event renders the specular version of the
\* fixed pose, and the diffuse version only if the diffuse regularization is
\* enabled: with apply_diffuse_render_regularization = False no feedback
\* event asks for a diffuse rendering.
C18_DiffuseFeedbackOnlyIfEnabled ==
    /\ last.feedback => last.feedback_specular
    /\ last.feedback_diffuse => args.apply_diffuse_render_regularization

\* C18, amended: every feedback event asks for the specular and for the
\* diffuse version of the fixed pose, whether or not the diffuse
\* regularization is enabled; an iteration without a feedback event asks
\* for neither.
C18_FeedbackVersions ==
    /\ last.feedback => /\ last.feedback_specular
                        /\ last.feedback_diffuse
                        /\ last.feedback_pose = render_feedback_pose
    /\ ~last.feedback => ~last.feedback_specular /\ ~last.feedback_diffuse
    /\ last.diffuse_pass <=>
          (IterationRan /\ args.apply_diffuse_render_regularization)

\* a feedback event of the second stage with the regularization off: no
\* diffuse pass over the ray batch, and a diffuse feedback rendering
C18_Witness ==
    /\ ~args.apply_diffuse_render_regularization
    /\ last.stage = 2
    /\ last.feedback
    /\ ~last.diffuse_pass
    /\ last.feedback_diffuse

\* C19: the parameters are re-randomized exactly once in a run, in
\* Initializing, on the grid just downscaled to the first resolution and
\* before the first iteration; a stage transition resamples, trilinearly,
\* the values the stage ended with and does not re-randomize them.
C19_RandomizedOnce ==
    LET grid == vol_mod.thre3d_repr
    IN /\ counts.randomize = counts.downscale
       /\ counts.randomize = IF pc = "init" \/ BadModel THEN 0 ELSE 1
       /\ grid.n_randomized = counts.randomize
       /\ grid.n_resampled = counts.downscale + counts.resize
       /\ grid.modes \subseteq {"trilinear"}
       /\ grid.n_steps = counts.iterations
       /\ counts.downscale = 1 => counts.resize = stage - 1
       /\ \A n \in DOMAIN model_dir : model_dir[n].n_randomized = 1

\* the third stage begins: two transitions have resampled the updated
\* values, the one re-randomization is that of Initializing
C19_Witness ==
    /\ pc = "iter"
    /\ stage = 3
    /\ counts.resize = 2
    /\ vol_mod.thre3d_repr.n_resampled = 3
    /\ vol_mod.thre3d_repr.n_randomized = 1
    /\ vol_mod.thre3d_repr.n_steps = 2 * args.num_iterations_per_stage
    /\ vol_mod.thre3d_repr.modes = {"trilinear"}

\* C21: the feedback rendering, the held-out evaluation and the snapshot of
\* global step g read the representation after exactly g optimizer steps and
\* at the resolution of the stage of that step (the losses logged at g are
\* those of the forward pass, made before the g-th step).  On the last
\* iteration of a stage that is not the last they come before the resize:
\* every snapshot named for stage s holds the resolution of stage s, and the
\* final model file holds the resolution the model had on entry.
C21_SideEffectsSeeUpdatedStage ==
    LET S == args.num_stages
        N == args.num_iterations_per_stage
        g == last.global_step
        now == Some([n_steps |-> g,
                     grid_dims |-> stagewise_voxel_grid_sizes[last.stage]])
        final == <<"model_final", ".pth">>
    IN /\ IterationRan =>
            /\ last.loss_seen[1].n_steps = g - 1
            /\ last.feedback <=> (last.feedback_seen # Nothing)
            /\ last.test <=> (last.test_seen # Nothing)
            /\ last.save <=> (last.save_seen # Nothing)
            /\ last.feedback => last.feedback_seen = now
            /\ last.test => last.test_seen = now
            /\ last.save => /\ last.save_seen = now
                            /\ model_dir[SnapshotName(last.stage, g)].n_steps = g
            /\ (pc = "stage_begin" /\ last.stage < S)
                  => /\ last.stage_iteration = N
                     /\ last.feedback /\ last.save
                     /\ vol_mod.thre3d_repr.grid_dims
                          = stagewise_voxel_grid_sizes[last.stage + 1]
       /\ \A s \in 1..S : \A k \in 1..(S * N) :
            SnapshotName(s, k) \in DOMAIN model_dir
              => /\ model_dir[SnapshotName(s, k)].grid_dims
                      = stagewise_voxel_grid_sizes[s]
                 /\ model_dir[SnapshotName(s, k)].n_steps = k
                 /\ model_dir[SnapshotName(s, k)].n_resampled = s
       /\ pc = "done"
            => /\ model_dir[final].grid_dims = args.vol_mod_grid_dims
               /\ model_dir[final].n_steps = S * N

\* the first stage of three has just been resized: its last iteration
\* rendered feedback, evaluated and saved before, at the first resolution
C21_Witness ==
    /\ pc = "stage_begin"
    /\ args.num_stages = 3
    /\ args.num_iterations_per_stage = 3
    /\ last.stage = 1
    /\ last.feedback /\ last.test /\ last.save
    /\ last.test_seen = Some([n_steps |-> 3, grid_dims |-> <<2, 2, 2>>])
    /\ model_dir[SnapshotName(1, 3)].grid_dims = <<2, 2, 2>>
    /\ vol_mod.thre3d_repr.grid_dims = <<4, 4, 4>>
====
